---- MODULE Spec2Model ----
(***************************************************************************)
(* A model of traceit: query normalisation (AFSSearcher._extract_base_name) *)
(* the Sourcegraph client (SourcegraphSearcher) and the AFS filesystem     *)
(* client (AFSSearcher.search and its worker thread).                      *)
(*                                                                         *)
(* Python strings are sequences of one-character strings, so that slicing, *)
(* splitting, lower-casing and substring search are computed, not assumed. *)
(***************************************************************************)
EXTENDS Integers, Sequences, FiniteSets, TLC

VARIABLES
    query,        \* the raw query string handed to the component
    base_name,    \* _extract_base_name's return value
    npc,          \* normaliser: "call" before the call, "done" after it
    max_retries,  \* SourcegraphSearcher.max_retries
    json_error_is_request_exception,
                  \* whether the installed requests raises its own
                  \* JSONDecodeError (a RequestException) from
                  \* response.json(), or the json module's ValueError
    attempt,      \* _make_request's loop variable
    rpc,          \* where search_references is: "idle", "post", "sleep",
                  \* "parse", "except", "returned" or "raised"
    exc,          \* the exception in flight, "none" when there is none
    log,          \* the requests issued and the sleeps taken, in order
    response,     \* the JSON body _make_request returned
    references,   \* search_references' return value
    root_state,   \* the AFS root: "ok", "absent", "notdir" or "unlistable"
    present,      \* the files of the tree under the root
    max_depth,    \* search's max_depth argument
    timeout,      \* search's timeout argument: "None" or "finite"
    wpc,          \* the worker thread: "unstarted", "ping", "extract",
                  \* "walk", "stat", "exit" or "dead"
    walk_stack,   \* the directories os.walk has still to yield
    listed,       \* the directories os.walk has yielded, in order
    examined,     \* the files the for loop over files has looked at
    matching_files, \* _find_matching_files' list
    stat_idx,     \* the worker's position in matching_files
    stat_log,     \* what stat did for each file the worker has got past
    refs,         \* the worker's refs list
    result_queue, \* the queue.Queue between worker and caller
    cpc,          \* the caller of search: "idle", "start", "join",
                  \* "check", "get" or "returned"
    afs_result,   \* search's return value
    config_file,  \* the YAML document of the user's file, or NoFile
    config,       \* Config._config
    llm_api_key,  \* os.getenv("LLM_API_KEY", "")
    kpc,          \* Config.__init__: "idle", "load", "defaults", "ready"
                  \* or "raised"
    config_exc,   \* the exception Config.__init__ raised, "none" if none
    output_json,  \* main's --json flag
    generate_summary, \* main's --summary flag
    depth,        \* main's --depth option: None or an integer
    verbose,      \* main's --verbose flag
    mpc,          \* main: "idle", "config", "logging", "sourcegraph",
                  \* "afs", "search", "searching" or "raised"
    main_exc,     \* the exception main ended with, "none" when there is none
    provider,     \* ImpactSummarizer.provider
    openai_available, \* OPENAI_AVAILABLE: whether import openai succeeded
    client,       \* ImpactSummarizer.client: "None" or "OpenAI"
    code_refs,    \* summarize's code_refs argument
    afs_refs,     \* summarize's afs_refs argument
    summary_text, \* response.choices[0].message.content
    summary,      \* summarize's return value
    summarizer_exc, \* the exception in flight in the summarizer, or "none"
    spc           \* the summarizer: "idle", "init", "summarize", "call",
                  \* "parse", "except", "returned" or "raised"

normVars == <<query, base_name, npc>>

remoteVars == <<max_retries, json_error_is_request_exception, attempt, rpc,
                exc, log, response, references>>

afsVars == <<root_state, present, max_depth, timeout, wpc, walk_stack, listed,
             examined, matching_files, stat_idx, stat_log, refs, result_queue,
             cpc, afs_result>>

configVars == <<config_file, config, llm_api_key, kpc, config_exc>>

mainVars == <<output_json, generate_summary, depth, verbose, mpc, main_exc>>

summarizerVars == <<provider, openai_available, client, code_refs, afs_refs,
                    summary_text, summary, summarizer_exc, spc>>

\* the state of the components outside the two searchers
restVars == <<configVars, mainVars, summarizerVars>>

vars == <<normVars, remoteVars, afsVars, restVars>>

\* a component that the specification at hand does not run
NormIdle ==
    /\ query = <<>>
    /\ base_name = <<>>
    /\ npc = "idle"

RemoteIdle ==
    /\ max_retries = 0
    /\ json_error_is_request_exception = FALSE
    /\ attempt = 0
    /\ rpc = "idle"
    /\ exc = "none"
    /\ log = <<>>
    /\ response = [t |-> "null"]
    /\ references = <<>>

AfsIdle ==
    /\ root_state = "absent"
    /\ present = {}
    /\ max_depth = 1
    /\ timeout = "None"
    /\ wpc = "unstarted"
    /\ walk_stack = <<>>
    /\ listed = <<>>
    /\ examined = {}
    /\ matching_files = <<>>
    /\ stat_idx = 1
    /\ stat_log = <<>>
    /\ refs = <<>>
    /\ result_queue = <<>>
    /\ cpc = "idle"
    /\ afs_result = <<>>

ConfigIdle ==
    /\ config_file = [t |-> "nofile"]
    /\ config = [t |-> "null"]
    /\ llm_api_key = ""
    /\ kpc = "idle"
    /\ config_exc = "none"

MainIdle ==
    /\ output_json = FALSE
    /\ generate_summary = FALSE
    /\ depth = [t |-> "null"]
    /\ verbose = FALSE
    /\ mpc = "idle"
    /\ main_exc = "none"

SummarizerIdle ==
    /\ provider = "openai"
    /\ openai_available = FALSE
    /\ client = "None"
    /\ code_refs = <<>>
    /\ afs_refs = <<>>
    /\ summary_text = [t |-> "null"]
    /\ summary = [t |-> "null"]
    /\ summarizer_exc = "none"
    /\ spc = "idle"

RestIdle == ConfigIdle /\ MainIdle /\ SummarizerIdle

----------------------------------------------------------------------------
(* Bounds *)

\* longest remainder that follows a prefix in an enumerated query
MaxLen == 3

\* most entries in an enumerated response's result list
MaxResults == 2

\* largest max_retries the client is constructed with (the default is 3)
MaxRetriesBound == 3

\* most files in an enumerated directory tree
MaxFiles == 2

\* largest max_depth the filesystem search is called with (the default is 1)
MaxDepthBound == 2

\* most sections in an enumerated configuration file
MaxSections == 2

\* most lines in an enumerated LLM response
MaxLines == 3

----------------------------------------------------------------------------
(* Strings *)

\* all sequences over S of length at most n
RECURSIVE SeqsUpTo(_, _)
SeqsUpTo(S, n) ==
    IF n = 0 THEN {<<>>}
    ELSE LET shorter == SeqsUpTo(S, n - 1)
         IN  shorter \cup {Append(s, c) : s \in shorter, c \in S}

\* s[n:]
Slice(s, n) == SubSeq(s, n + 1, Len(s))

\* s.startswith(p)
StartsWith(s, p) == Len(s) >= Len(p) /\ SubSeq(s, 1, Len(p)) = p

\* s.endswith(p)
EndsWith(s, p) == Len(s) >= Len(p) /\ SubSeq(s, Len(s) - Len(p) + 1, Len(s)) = p

\* str.lower() on one character of the modelled alphabet
LowerChar(c) ==
    CASE c = "A" -> "a"
      [] c = "B" -> "b"
      [] c = "P" -> "p"
      [] c = "T" -> "t"
      [] c = "J" -> "j"
      [] OTHER -> c

\* s.lower()
Lower(s) == [i \in 1..Len(s) |-> LowerChar(s[i])]

\* sub in s
Contains(sub, s) ==
    \E i \in 0..(Len(s) - Len(sub)) : SubSeq(s, i + 1, i + Len(sub)) = sub

\* s.split(sep) for a one-character sep: the pieces between the separators
RECURSIVE SplitFrom(_, _, _, _)
SplitFrom(s, sep, i, cur) ==
    IF i > Len(s) THEN <<cur>>
    ELSE IF s[i] = sep THEN <<cur>> \o SplitFrom(s, sep, i + 1, <<>>)
    ELSE SplitFrom(s, sep, i + 1, Append(cur, s[i]))

Split(s, sep) == SplitFrom(s, sep, 1, <<>>)

JobPrefix == <<"j", "o", "b", ":">>
TablePrefix == <<"t", "a", "b", "l", "e", ":">>

----------------------------------------------------------------------------
(* AFSSearcher._extract_base_name *)

\* the variant table_name.split(".")[0]
TableNameFirstPiece(table_name) == Split(table_name, ".")[1]

\* table_name.split(".")[-1]
TableName(table_name) ==
    LET pieces == Split(table_name, ".") IN pieces[Len(pieces)]

ExtractBaseName(q) ==
    IF StartsWith(q, JobPrefix) THEN Slice(q, 4)
    ELSE IF StartsWith(q, TablePrefix) THEN TableName(Slice(q, 6))
    ELSE q

\* the queries the normaliser is run on: a prefix (recognised, nearly
\* recognised or none) followed by every short remainder
Prefixes ==
    { <<>>, JobPrefix, TablePrefix,
      <<"j", "o", "b">>, <<"J", "o", "b", ":">>,
      <<"t", "a", "b", "l", "e">>, <<"a">> \o TablePrefix }

RemainderChars == {"a", "B", ".", ":"}

Queries == {p \o r : p \in Prefixes, r \in SeqsUpTo(RemainderChars, MaxLen)}

NormInit ==
    /\ query \in Queries
    /\ base_name = <<>>
    /\ npc = "call"
    /\ RemoteIdle
    /\ AfsIdle
    /\ RestIdle

Normalize ==
    /\ npc = "call"
    /\ base_name' = ExtractBaseName(query)
    /\ npc' = "done"
    /\ UNCHANGED <<query, remoteVars, afsVars, restVars>>

NormNext == Normalize

SpecNormalize == NormInit /\ [][NormNext]_vars


----------------------------------------------------------------------------
(* JSON values, as response.json() returns them: a Python dict is          *)
(* [t |-> "obj", v |-> a function on its keys], a list is "arr", a str is  *)
(* "str" and None is "null".                                               *)

Null == [t |-> "null"]
Str(s) == [t |-> "str", v |-> s]
Obj(f) == [t |-> "obj", v |-> f]
Arr(s) == [t |-> "arr", v |-> s]
EmptyObj == Obj(<<>>)

\* key in x, for a dict x
HasKey(x, k) == x.t = "obj" /\ k \in DOMAIN x.v

\* An expression's value or the exception it raised.
Val(x) == [exc |-> "none", val |-> x]
Raise(e) == [exc |-> e, val |-> Null]

\* x.get(k, d): AttributeError unless x is a dict
Get(x, k, d) ==
    IF x.t # "obj" THEN Raise("AttributeError")
    ELSE IF k \in DOMAIN x.v THEN Val(x.v[k])
    ELSE Val(d)

\* x[k]: KeyError when the dict has no such key, TypeError for None and for
\* a list or str indexed by a str
Index(x, k) ==
    IF x.t # "obj" THEN Raise("TypeError")
    ELSE IF k \in DOMAIN x.v THEN Val(x.v[k])
    ELSE Raise("KeyError")

\* r.get(k, d) where r is itself a value or an exception
ThenGet(r, k, d) == IF r.exc # "none" THEN r ELSE Get(r.val, k, d)

ThenIndex(r, k) == IF r.exc # "none" THEN r ELSE Index(r.val, k)

\* isinstance(e, cls) for the exception classes that occur
RequestExceptions ==
    {"Timeout", "ConnectionError", "HTTPError", "RequestsJSONDecodeError"}

IsInstance(e, cls) ==
    CASE cls = "Exception" -> TRUE
      [] cls = "RequestException" -> e \in RequestExceptions
      [] OTHER -> e = cls

----------------------------------------------------------------------------
(* SourcegraphSearcher._parse_search_results *)

\* the variant whose .get calls give no default
ReferenceNoDefaults(file_info, repo_info) ==
    [ path |-> Get(file_info, "path", Null).val,
      repo |-> Get(repo_info, "name", Null).val,
      url |-> Get(file_info, "url", Null).val,
      last_modified |-> Null,
      author |-> Null,
      type |-> "code" ]

\* the dict appended for one FileMatch, given file_info and repo_info
Reference(file_info, repo_info) ==
    [ path |-> Get(file_info, "path", Str("")).val,
      repo |-> Get(repo_info, "name", Str("")).val,
      url |-> Get(file_info, "url", Str("")).val,
      last_modified |-> Null,
      author |-> Null,
      type |-> "code" ]

\* the for loop from its i-th iteration on, with references = acc; the
\* result is the list and the exception that ended the loop, if any
RECURSIVE ParseLoop(_, _, _)
ParseLoop(results, i, acc) ==
    IF i > Len(results) THEN [exc |-> "none", refs |-> acc]
    ELSE
      LET result == results[i]
          typename == Get(result, "__typename", Null)
          file_info == Get(result, "file", EmptyObj)
          repo_info == Get(result, "repository", EmptyObj)
      IN  IF typename.exc # "none" THEN [exc |-> typename.exc, refs |-> acc]
          ELSE IF typename.val # Str("FileMatch")
          THEN ParseLoop(results, i + 1, acc)
          ELSE IF file_info.val.t # "obj" \/ repo_info.val.t # "obj"
          THEN [exc |-> "AttributeError", refs |-> acc]
          ELSE ParseLoop(results, i + 1,
                         Append(acc, Reference(file_info.val, repo_info.val)))

\* for result in search_results: a list yields its items; an empty dict or
\* str yields nothing; a non-empty dict or str yields str items, on which
\* .get raises AttributeError; None is not iterable
Iterate(search_results) ==
    CASE search_results.t = "arr" -> ParseLoop(search_results.v, 1, <<>>)
      [] search_results.t = "null" -> [exc |-> "TypeError", refs |-> <<>>]
      [] search_results.t = "obj" ->
            IF DOMAIN search_results.v = {}
            THEN [exc |-> "none", refs |-> <<>>]
            ELSE [exc |-> "AttributeError", refs |-> <<>>]
      [] OTHER ->
            IF search_results.v = ""
            THEN [exc |-> "none", refs |-> <<>>]
            ELSE [exc |-> "AttributeError", refs |-> <<>>]

\* response.get("data", {}).get("search", {}).get("results", {})
\*         .get("results", [])
SearchResults(resp) ==
    ThenGet(ThenGet(ThenGet(Get(resp, "data", EmptyObj),
                            "search", EmptyObj),
                    "results", EmptyObj),
            "results", Arr(<<>>))

\* the variant response["data"]["search"]["results"]["results"]
SearchResultsByIndex(resp) ==
    ThenIndex(ThenIndex(ThenIndex(Index(resp, "data"), "search"), "results"),
              "results")

\* the body of the try block: the list built and the exception raised
ParseBody(resp) ==
    LET search_results == SearchResults(resp)
    IN  IF search_results.exc # "none"
        THEN [exc |-> search_results.exc, refs |-> <<>>]
        ELSE Iterate(search_results.val)

ParseBodyByIndex(resp) ==
    LET search_results == SearchResultsByIndex(resp)
    IN  IF search_results.exc # "none"
        THEN [exc |-> search_results.exc, refs |-> <<>>]
        ELSE Iterate(search_results.val)

\* the class named by _parse_search_results' except clause
ParseHandler == "Exception"

\* try: ... except Exception: log; return references
TryParse(body) ==
    IF body.exc # "none" /\ IsInstance(body.exc, ParseHandler)
    THEN [exc |-> "none", refs |-> body.refs]
    ELSE body

\* the variant that indexes the response and has no try
ParseSearchResultsUnguarded(resp) == ParseBodyByIndex(resp)

ParseSearchResults(resp) == TryParse(ParseBody(resp))

----------------------------------------------------------------------------
(* The responses the parser is run on *)

FileMatchEntry(f) == Obj(("__typename" :> Str("FileMatch")) @@ f)

Entries ==
    { FileMatchEntry(("file" :> Obj([path |-> Str("p1"), url |-> Str("u1")]))
                     @@ ("repository" :> Obj([name |-> Str("r1")]))),
      FileMatchEntry(("file" :> Obj([path |-> Str("p2")]))
                     @@ ("repository" :> Obj([name |-> Str("r2")]))),
      FileMatchEntry(("repository" :> Obj([name |-> Str("r1")]))),
      FileMatchEntry(("file" :> EmptyObj)),
      FileMatchEntry(("file" :> Obj([path |-> Str("p1")]))
                     @@ ("repository" :> EmptyObj)),
      Obj(("__typename" :> Str("Repository")) @@ ("name" :> Str("r1"))),
      Obj(("file" :> Obj([path |-> Str("p1")]))),
      FileMatchEntry(("file" :> Null)
                     @@ ("repository" :> Obj([name |-> Str("r1")]))),
      FileMatchEntry(("file" :> Obj([path |-> Null]))
                     @@ ("repository" :> Obj([name |-> Str("r1")]))),
      Str("x") }

\* {"data": {"search": {"results": {"results": x}}}}
FullResponse(x) ==
    Obj([data |-> Obj([search |-> Obj([results |-> Obj([results |-> x])])])])

OneMatch == Arr(<<FileMatchEntry(
                    ("file" :> Obj([path |-> Str("p1"), url |-> Str("u1")]))
                    @@ ("repository" :> Obj([name |-> Str("r1")])))>>)

\* responses in which the path to the result list is cut short or holds a
\* value of the wrong type
BrokenResponses ==
    { EmptyObj,
      Obj([errors |-> Arr(<<Str("x")>>)]),
      Obj([data |-> EmptyObj]),
      Obj([data |-> Null]),
      Obj([data |-> Str("x")]),
      Obj([data |-> Obj([search |-> EmptyObj])]),
      Obj([data |-> Obj([search |-> Null])]),
      Obj([data |-> Obj([search |-> Obj([results |-> EmptyObj])])]),
      Obj([data |-> Obj([search |-> Obj([results |-> OneMatch])])]),
      Obj([data |-> Obj([search |-> OneMatch])]),
      Obj([data |-> OneMatch]),
      Obj([results |-> OneMatch]),
      FullResponse(Null),
      FullResponse(EmptyObj),
      FullResponse(Str("x")),
      Null,
      OneMatch }

Responses ==
    {FullResponse(Arr(l)) : l \in SeqsUpTo(Entries, MaxResults)}
        \cup BrokenResponses

\* the bodies a successful request delivers in the retry specification
RetryBodies == {FullResponse(OneMatch), EmptyObj, Null}

----------------------------------------------------------------------------
(* SourcegraphSearcher.search_references and _make_request *)

\* what one requests.post / raise_for_status / response.json() does
FailureOutcomes ==
    {"Timeout", "ConnectionError", "HTTP5xx", "HTTP4xx", "MalformedBody"}

\* the exception a failed attempt raises inside the try of _make_request
ExceptionOf(outcome) ==
    CASE outcome \in {"HTTP5xx", "HTTP4xx"} -> "HTTPError"
      [] outcome = "MalformedBody" ->
            IF json_error_is_request_exception
            THEN "RequestsJSONDecodeError" ELSE "ValueError"
      [] OTHER -> outcome

\* the class named by _make_request's except clause
MakeRequestHandler == "RequestException"

\* the variant except requests.exceptions.RequestException
SearchReferencesHandlerNarrow == "RequestException"

\* the class named by search_references' except clause
SearchReferencesHandler == "Exception"

\* the variant wait_time = 2 * attempt
BackoffLinear(n) == 2 * n

\* wait_time = 2 ** attempt
Backoff(n) == 2 ^ n

PostEvent(outcome, body) ==
    [ev |-> "post", out |-> outcome, body |-> body, secs |-> 0]

SleepEvent(secs) ==
    [ev |-> "sleep", out |-> "none", body |-> Null, secs |-> secs]

\* an attempt whose request succeeds: _make_request returns the body
PostSuccess ==
    /\ rpc = "post"
    /\ attempt < max_retries
    /\ \E body \in RetryBodies :
        /\ log' = Append(log, PostEvent("OK", body))
        /\ response' = body
    /\ rpc' = "parse"
    /\ UNCHANGED <<max_retries, json_error_is_request_exception, attempt,
                   exc, references, normVars, afsVars, restVars>>

\* the except clause's condition for sleeping and going round again
RetriesLeft(n) == n < max_retries - 1

\* an attempt that raises: a RequestException is retried after a sleep
\* while attempts remain and re-raised on the last one; any other exception
\* leaves _make_request at once
PostFailure ==
    /\ rpc = "post"
    /\ attempt < max_retries
    /\ \E outcome \in FailureOutcomes :
        /\ log' = Append(log, PostEvent(outcome, Null))
        /\ IF IsInstance(ExceptionOf(outcome), MakeRequestHandler)
              /\ RetriesLeft(attempt)
           THEN rpc' = "sleep" /\ exc' = "none"
           ELSE rpc' = "except" /\ exc' = ExceptionOf(outcome)
    /\ UNCHANGED <<max_retries, json_error_is_request_exception, attempt,
                   response, references, normVars, afsVars, restVars>>

\* time.sleep(wait_time), then the next iteration
Sleep ==
    /\ rpc = "sleep"
    /\ log' = Append(log, SleepEvent(Backoff(attempt)))
    /\ attempt' = attempt + 1
    /\ rpc' = "post"
    /\ UNCHANGED <<max_retries, json_error_is_request_exception, exc,
                   response, references, normVars, afsVars, restVars>>

\* the loop ends without an attempt left to make: return {}
LoopExhausted ==
    /\ rpc = "post"
    /\ attempt >= max_retries
    /\ response' = EmptyObj
    /\ rpc' = "parse"
    /\ UNCHANGED <<max_retries, json_error_is_request_exception, attempt,
                   exc, log, references, normVars, afsVars, restVars>>

\* return self._parse_search_results(response, query)
Parse ==
    /\ rpc = "parse"
    /\ LET parsed == ParseSearchResults(response)
       IN  IF parsed.exc = "none"
           THEN references' = parsed.refs /\ rpc' = "returned"
                /\ UNCHANGED exc
           ELSE rpc' = "except" /\ exc' = parsed.exc
                /\ UNCHANGED references
    /\ UNCHANGED <<max_retries, json_error_is_request_exception, attempt,
                   log, response, normVars, afsVars, restVars>>

\* search_references' except clause: log and return [], or let it through
Except ==
    /\ rpc = "except"
    /\ IF IsInstance(exc, SearchReferencesHandler)
       THEN references' = <<>> /\ rpc' = "returned"
       ELSE rpc' = "raised" /\ UNCHANGED references
    /\ UNCHANGED <<max_retries, json_error_is_request_exception, attempt,
                   exc, log, response, normVars, afsVars, restVars>>

RemoteInit ==
    /\ max_retries \in 0..MaxRetriesBound
    /\ json_error_is_request_exception \in BOOLEAN
    /\ attempt = 0
    /\ rpc = "post"
    /\ exc = "none"
    /\ log = <<>>
    /\ response = Null
    /\ references = <<>>
    /\ NormIdle
    /\ AfsIdle
    /\ RestIdle

RemoteNext ==
    \/ PostSuccess
    \/ PostFailure
    \/ Sleep
    \/ LoopExhausted
    \/ Parse
    \/ Except

SpecRemote == RemoteInit /\ [][RemoteNext]_vars

\* _parse_search_results on its own, for every enumerated response
ParseInit ==
    /\ max_retries = 0
    /\ json_error_is_request_exception = FALSE
    /\ attempt = 0
    /\ rpc = "parse"
    /\ exc = "none"
    /\ log = <<>>
    /\ response \in Responses
    /\ references = <<>>
    /\ NormIdle
    /\ AfsIdle
    /\ RestIdle

ParseNext == Parse

SpecParse == ParseInit /\ [][ParseNext]_vars

----------------------------------------------------------------------------
(* The directory trees the filesystem search is run on.  A directory is the *)
(* sequence of names that leads to it from the root (Path(root).parts past  *)
(* the root's own), a file a directory and a name.                          *)

DirA == <<"a">>
DirB == <<"b">>
DirHidden == <<".", "h">>

Root == <<>>

\* the subdirectories of d, in the order scandir lists them
Children(d) ==
    CASE d = Root -> <<DirHidden, DirA>>
      [] d = <<DirA>> -> <<DirB, DirHidden>>
      [] d = <<DirA, DirB>> -> <<DirA>>
      [] d = <<DirHidden>> -> <<DirA>>
      [] OTHER -> <<>>

AllDirs ==
    { Root, <<DirA>>, <<DirHidden>>, <<DirA, DirB>>, <<DirA, DirHidden>>,
      <<DirA, DirB, DirA>>, <<DirHidden, DirA>> }

NameAbPy == <<"a", "b", ".", "p", "y">>
NameAbTxt == <<"a", "b", ".", "t", "x", "t">>
NameBSql == <<"B", ".", "s", "q", "l">>
NameCPy == <<"c", ".", "p", "y">>

\* the order in which scandir lists the files of one directory
FileOrder == <<NameAbTxt, NameAbPy, NameBSql, NameCPy>>

File(d, n) == [dir |-> d, name |-> n]

\* where a tree may hold a file
Placements ==
    { File(Root, NameAbPy), File(Root, NameAbTxt), File(Root, NameCPy),
      File(<<DirA>>, NameAbPy), File(<<DirA>>, NameBSql),
      File(<<DirHidden>>, NameAbPy),
      File(<<DirA, DirB>>, NameAbPy),
      File(<<DirA, DirHidden>>, NameAbPy),
      File(<<DirA, DirB, DirA>>, NameAbPy) }

Trees == {S \in SUBSET Placements : Cardinality(S) <= MaxFiles}

\* the files of directory d, as os.walk yields them
FilesIn(d) ==
    LET InDir(n) == File(d, n) \in present
    IN  SelectSeq(FileOrder, InDir)

\* Path(root) / file, as the parts below the root
PathOf(f) == Append(f.dir, f.name)

\* the queries the filesystem search is run with
AfsQueries ==
    { <<"a", "b">>,
      JobPrefix \o <<"A", "B">>,
      TablePrefix \o <<"a", ".", "B">>,
      JobPrefix,
      TablePrefix,
      TablePrefix \o <<"a", ".">> }

----------------------------------------------------------------------------
(* AFSSearcher._find_matching_files *)

\* the default search_patterns: ".*\\.py$", ".*\\.sql$", ".*\\.ipynb$"
SearchPatterns ==
    { <<".", "p", "y">>, <<".", "s", "q", "l">>,
      <<".", "i", "p", "y", "n", "b">> }

\* pattern.search(file) for a pattern ".*\\.ext$": the name ends in .ext
PatternSearch(ext, file) == EndsWith(file, ext)

\* the variant without the pattern test
IsMatchSubstringOnly(base, file) == Contains(Lower(base), Lower(file))

\* base_name.lower() in file.lower() and any(pattern.search(file) ...)
IsMatch(base, file) ==
    /\ Contains(Lower(base), Lower(file))
    /\ \E ext \in SearchPatterns : PatternSearch(ext, file)

\* the variant current_depth > max_depth
DepthExceeded(current_depth, limit) == current_depth > limit

\* if current_depth >= max_depth
DepthReached(current_depth, limit) == current_depth >= limit

\* the variant dirs = [], which leaves os.walk's list as it was
Rebound(dirs) == dirs

\* dirs[:] = []
Cleared(dirs) == <<>>

\* d.startswith(".")
IsHiddenName(d) == StartsWith(d, <<".">>)

\* the variant that keeps every directory
AnyName(d) == TRUE

\* not d.startswith(".")
NotHiddenName(d) == ~IsHiddenName(d)

\* dirs after the loop body has pruned it: what os.walk descends into
DirsToDescend(root) ==
    IF DepthReached(Len(root), max_depth)
    THEN Cleared(Children(root))
    ELSE SelectSeq(Children(root), NotHiddenName)

\* the files of root appended to matching_files by one pass of the loop
MatchesIn(root) ==
    LET Matching(n) == IsMatch(base_name, n)
        names == SelectSeq(FilesIn(root), Matching)
    IN  [i \in 1..Len(names) |-> File(root, names[i])]

----------------------------------------------------------------------------
(* AFSSearcher.search: the worker thread *)

\* the variant in which the item never reaches the queue
PutLost(q, item) == q

\* result_queue.put(item) on the unbounded queue.Queue
Put(q, item) == Append(q, item)

\* the variant that tests path.exists() alone
PingExistsOnly == root_state # "absent"

\* _ping_afs_location: exists, is a directory and can be listed; an
\* exception from the listing is caught and gives False
PingAfsLocation == root_state = "ok"

\* if not _ping_afs_location(root_path): result_queue.put([]); return
WorkerPing ==
    /\ wpc = "ping"
    /\ IF PingAfsLocation
       THEN wpc' = "extract" /\ UNCHANGED result_queue
       ELSE wpc' = "exit" /\ result_queue' = Put(result_queue, <<>>)
    /\ UNCHANGED <<root_state, present, max_depth, timeout, walk_stack,
                   listed, examined, matching_files, stat_idx, stat_log, refs, cpc,
                   afs_result, normVars, remoteVars, restVars>>

\* base_name = self._extract_base_name(query), and os.walk is entered
WorkerExtract ==
    /\ wpc = "extract"
    /\ base_name' = ExtractBaseName(query)
    /\ walk_stack' = <<Root>>
    /\ wpc' = "walk"
    /\ UNCHANGED <<query, npc, root_state, present, max_depth, timeout,
                   listed, examined, matching_files, stat_idx, stat_log, refs,
                   result_queue, cpc, afs_result, remoteVars, restVars>>

\* one pass of the for loop over os.walk: the directory is listed, dirs is
\* pruned in place, the files are tested, and os.walk goes on, top down,
\* into what is left of dirs
WalkStep ==
    /\ wpc = "walk"
    /\ walk_stack # <<>>
    /\ LET root == Head(walk_stack)
           below == DirsToDescend(root)
       IN  /\ listed' = Append(listed, root)
           /\ examined' = examined \cup
                            {File(root, FilesIn(root)[i]) :
                                i \in 1..Len(FilesIn(root))}
           /\ matching_files' = matching_files \o MatchesIn(root)
           /\ walk_stack' = [i \in 1..Len(below) |-> Append(root, below[i])]
                                \o Tail(walk_stack)
    /\ UNCHANGED <<root_state, present, max_depth, timeout, wpc, stat_idx, stat_log,
                   refs, result_queue, cpc, afs_result, normVars,
                   remoteVars, restVars>>

\* os.walk is exhausted: return matching_files
WalkDone ==
    /\ wpc = "walk"
    /\ walk_stack = <<>>
    /\ wpc' = "stat"
    /\ stat_idx' = 1
    /\ UNCHANGED <<root_state, present, max_depth, timeout, walk_stack,
                   listed, examined, matching_files, stat_log, refs,
                   result_queue,
                   cpc, afs_result, normVars, remoteVars, restVars>>

\* what file_path.stat() and datetime.fromtimestamp do for one file: the
\* stat succeeds, raises OSError, or gives a time fromtimestamp rejects
StatOutcomes == {"ok", "OSError", "ValueError"}

AfsReference(f) ==
    [path |-> PathOf(f), last_modified |-> "mtime", type |-> "afs"]

\* the variant whose handler catches nothing
SkipsNothing(outcome) == FALSE

\* except (OSError, PermissionError): continue
SkippedByHandler(outcome) == outcome = "OSError"

\* one pass of the loop over matching_files; an OSError skips the file, any
\* other exception reaches the worker's except Exception, which puts []
StatStep ==
    /\ wpc = "stat"
    /\ stat_idx <= Len(matching_files)
    /\ \E outcome \in StatOutcomes :
        /\ stat_log' = Append(stat_log, outcome)
        /\ CASE outcome = "ok" ->
                /\ refs' = Append(refs, AfsReference(matching_files[stat_idx]))
                /\ stat_idx' = stat_idx + 1
                /\ UNCHANGED <<wpc, result_queue>>
          [] SkippedByHandler(outcome) ->
                /\ stat_idx' = stat_idx + 1
                /\ UNCHANGED <<wpc, refs, result_queue>>
          [] OTHER ->
                /\ result_queue' = Put(result_queue, <<>>)
                /\ wpc' = "exit"
                /\ UNCHANGED <<stat_idx, refs>>
    /\ UNCHANGED <<root_state, present, max_depth, timeout, walk_stack,
                   listed, examined, matching_files, cpc, afs_result,
                   normVars, remoteVars, restVars>>

\* result_queue.put(refs)
WorkerPut ==
    /\ wpc = "stat"
    /\ stat_idx > Len(matching_files)
    /\ result_queue' = Put(result_queue, refs)
    /\ wpc' = "exit"
    /\ UNCHANGED <<root_state, present, max_depth, timeout, walk_stack,
                   listed, examined, matching_files, stat_idx, stat_log, refs, cpc,
                   afs_result, normVars, remoteVars, restVars>>

\* search_worker returns and the thread is no longer alive
WorkerExit ==
    /\ wpc = "exit"
    /\ wpc' = "dead"
    /\ UNCHANGED <<root_state, present, max_depth, timeout, walk_stack,
                   listed, examined, matching_files, stat_idx, stat_log, refs,
                   result_queue, cpc, afs_result, normVars, remoteVars,
                   restVars>>

----------------------------------------------------------------------------
(* AFSSearcher.search: the calling thread *)

\* t = threading.Thread(target=search_worker); t.start()
StartThread ==
    /\ cpc = "start"
    /\ wpc = "unstarted"
    /\ wpc' = "ping"
    /\ cpc' = "join"
    /\ UNCHANGED <<root_state, present, max_depth, timeout, walk_stack,
                   listed, examined, matching_files, stat_idx, stat_log, refs,
                   result_queue, afs_result, normVars, remoteVars, restVars>>

\* t.join(timeout) returns because the worker has finished
JoinReturns ==
    /\ cpc = "join"
    /\ wpc = "dead"
    /\ cpc' = "check"
    /\ UNCHANGED <<root_state, present, max_depth, timeout, wpc, walk_stack,
                   listed, examined, matching_files, stat_idx, stat_log, refs,
                   result_queue, afs_result, normVars, remoteVars, restVars>>

\* t.join(timeout) returns because the timeout has passed
JoinTimesOut ==
    /\ cpc = "join"
    /\ timeout # "None"
    /\ wpc # "dead"
    /\ cpc' = "check"
    /\ UNCHANGED <<root_state, present, max_depth, timeout, wpc, walk_stack,
                   listed, examined, matching_files, stat_idx, stat_log, refs,
                   result_queue, afs_result, normVars, remoteVars, restVars>>

\* if t.is_alive(): return []
CheckAlive ==
    /\ cpc = "check"
    /\ IF wpc # "dead"
       THEN cpc' = "returned" /\ afs_result' = <<>>
       ELSE cpc' = "get" /\ UNCHANGED afs_result
    /\ UNCHANGED <<root_state, present, max_depth, timeout, wpc, walk_stack,
                   listed, examined, matching_files, stat_idx, stat_log, refs,
                   result_queue, normVars, remoteVars, restVars>>

\* return result_queue.get(), which blocks while the queue is empty
QueueGet ==
    /\ cpc = "get"
    /\ result_queue # <<>>
    /\ afs_result' = Head(result_queue)
    /\ result_queue' = Tail(result_queue)
    /\ cpc' = "returned"
    /\ UNCHANGED <<root_state, present, max_depth, timeout, wpc, walk_stack,
                   listed, examined, matching_files, stat_idx, stat_log, refs,
                   normVars, remoteVars, restVars>>

AfsInit ==
    /\ query \in AfsQueries
    /\ base_name = <<>>
    /\ npc = "idle"
    /\ root_state \in {"ok", "absent", "notdir", "unlistable"}
    /\ present \in IF root_state = "ok" THEN Trees ELSE {{}}
    /\ max_depth \in 0..MaxDepthBound
    /\ timeout \in {"None", "finite"}
    /\ wpc = "unstarted"
    /\ walk_stack = <<>>
    /\ listed = <<>>
    /\ examined = {}
    /\ matching_files = <<>>
    /\ stat_idx = 1
    /\ stat_log = <<>>
    /\ refs = <<>>
    /\ result_queue = <<>>
    /\ cpc = "start"
    /\ afs_result = <<>>
    /\ RemoteIdle
    /\ RestIdle

AfsNext ==
    \/ StartThread
    \/ WorkerPing
    \/ WorkerExtract
    \/ WalkStep
    \/ WalkDone
    \/ StatStep
    \/ WorkerPut
    \/ WorkerExit
    \/ JoinReturns
    \/ JoinTimesOut
    \/ CheckAlive
    \/ QueueGet

SpecAFS == AfsInit /\ [][AfsNext]_vars

----------------------------------------------------------------------------
(* Config: the user's file merged with the defaults *)

\* YAML and Python values besides Null, Str, Obj and Arr
Scalar(x) == [t |-> "scalar", v |-> x]
Number(n) == [t |-> "int", v |-> n]
Boolean(b) == [t |-> "bool", v |-> b]

\* no config.yaml was found, and a file yaml.safe_load rejects
NoFile == [t |-> "nofile"]
Malformed == [t |-> "malformed"]

\* the defaults dict of _set_defaults
Defaults ==
    [sourcegraph |->
        Obj([endpoint |->
                Scalar("https://sourcegraph.example.com/.api/graphql"),
             token |-> Scalar("")]),
     afs |->
        Obj([root_path |-> Scalar("/afs/project"),
             search_patterns |->
                Arr(<<Scalar(".*\\.py$"), Scalar(".*\\.sql$"),
                      Scalar(".*\\.ipynb$")>>)]),
     llm |->
        Obj([enabled |-> Boolean(FALSE),
             provider |-> Scalar("openai"),
             model |-> Scalar("gpt-4"),
             api_key |-> Scalar(llm_api_key),
             base_url |-> Scalar("")]),
     logging |->
        Obj([level |-> Scalar("INFO"),
             format |->
                Scalar("%(asctime)s - %(name)s - %(levelname)s - %(message)s")]),
     performance |->
        Obj([max_workers |-> Number(4),
             request_timeout |-> Number(30),
             max_retries |-> Number(3)])]

SectionNames == DOMAIN Defaults

\* a value a user's file gives to a key, of the type of the key's default
UserValue(section, key) ==
    LET default == Defaults[section].v[key]
    IN  CASE default.t = "int" -> Number(1)
          [] default.t = "bool" -> Boolean(TRUE)
          [] default.t = "arr" -> Arr(<<Scalar(".*\\.txt$")>>)
          [] OTHER -> Scalar("user")

\* what a file can give for a section: the bare header (YAML null), or a
\* mapping that sets some of the section's keys
SectionChoices(section) ==
    {Null} \cup
    {Obj([key \in keys |-> UserValue(section, key)]) :
        keys \in SUBSET DOMAIN Defaults[section].v}

\* the documents yaml.safe_load gives: None for an empty file, or a
\* mapping of at most MaxSections sections
ConfigDocuments ==
    {Null} \cup
    UNION {{Obj(f) : f \in {g \in [sections ->
                                    UNION {SectionChoices(s) : s \in sections}] :
                                \A s \in sections : g[s] \in SectionChoices(s)}} :
            sections \in {S \in SUBSET SectionNames :
                            Cardinality(S) <= MaxSections}}

ConfigFiles == {NoFile, Malformed} \cup ConfigDocuments

\* a value that Python's "or" takes for false
Falsy(x) ==
    \/ x.t = "null"
    \/ x.t = "obj" /\ DOMAIN x.v = {}

\* if config_path and Path(config_path).exists():
\*     self._config = yaml.safe_load(f) or {}
\* else: self._config = {}
LoadFile ==
    /\ kpc = "load"
    /\ IF config_file = Malformed
       THEN kpc' = "raised" /\ config_exc' = "YAMLError" /\ UNCHANGED config
       ELSE /\ config' = IF config_file = NoFile \/ Falsy(config_file)
                         THEN EmptyObj
                         ELSE config_file
            /\ kpc' = "defaults"
            /\ UNCHANGED config_exc
    /\ UNCHANGED <<config_file, llm_api_key, mainVars, summarizerVars,
                   normVars, remoteVars, afsVars>>

\* the inner loop of the merge: "subkey not in self._config[key]" is a
\* TypeError when the file's section is None
MergeSection(user, default) ==
    IF user.t # "obj" THEN Raise("TypeError")
    ELSE Val(Obj([key \in DOMAIN user.v \cup DOMAIN default.v |->
                    IF key \in DOMAIN user.v THEN user.v[key]
                    ELSE default.v[key]]))

\* the merge loop of _set_defaults over the sections of defaults
SetDefaultsResult(cfg) ==
    LET merged(key) ==
            IF key \notin DOMAIN cfg.v THEN Val(Defaults[key])
            ELSE MergeSection(cfg.v[key], Defaults[key])
    IN  IF \E key \in SectionNames : merged(key).exc # "none"
        THEN Raise("TypeError")
        ELSE Val(Obj([key \in DOMAIN cfg.v \cup SectionNames |->
                        IF key \in SectionNames THEN merged(key).val
                        ELSE cfg.v[key]]))

\* self._set_defaults()
SetDefaults ==
    /\ kpc = "defaults"
    /\ LET result == SetDefaultsResult(config)
       IN  IF result.exc = "none"
           THEN config' = result.val /\ kpc' = "ready" /\ UNCHANGED config_exc
           ELSE kpc' = "raised" /\ config_exc' = result.exc /\ UNCHANGED config
    /\ UNCHANGED <<config_file, llm_api_key, mainVars, summarizerVars,
                   normVars, remoteVars, afsVars>>

\* Config.get(key, default) for the dotted key whose parts are keys
RECURSIVE ConfigGetFrom(_, _, _)
ConfigGetFrom(value, keys, default) ==
    IF keys = <<>> THEN value
    ELSE IF value.t = "obj" /\ Head(keys) \in DOMAIN value.v
         THEN ConfigGetFrom(value.v[Head(keys)], Tail(keys), default)
         ELSE default

ConfigGet(keys, default) == ConfigGetFrom(config, keys, default)

ConfigInit ==
    /\ llm_api_key \in {"", "key"}
    /\ config_file \in ConfigFiles
    /\ config = Null
    /\ kpc = "load"
    /\ config_exc = "none"
    /\ MainIdle
    /\ SummarizerIdle
    /\ NormIdle
    /\ RemoteIdle
    /\ AfsIdle

ConfigNext ==
    \/ LoadFile
    \/ SetDefaults

SpecConfig == ConfigInit /\ [][ConfigNext]_vars

----------------------------------------------------------------------------
(* main: from the command line to the construction of the searchers *)

\* def __init__(self, root_path, search_patterns=None) of AFSSearcher
AfsInitParameters == {"root_path", "search_patterns"}

\* AFSSearcher(root_path=..., search_patterns=..., verbose=verbose) in main
MainAfsKeywords == {"root_path", "search_patterns", "verbose"}

\* a call with keyword arguments: a keyword that names no parameter is a
\* TypeError
BindKeywords(keywords, parameters) ==
    IF keywords \subseteq parameters THEN "none" ELSE "TypeError"

\* the files --config names or Config finds, as enumerated for main
MainConfigFiles ==
    {NoFile,
     Null,
     Obj([afs |-> Null]),
     Obj([afs |-> Obj([root_path |-> Scalar("user")])]),
     Obj([llm |-> Obj([enabled |-> Boolean(TRUE)]),
          performance |-> Obj([max_retries |-> Number(1)])])}

\* cfg = Config(config_path=config) raised
ConfigRaises ==
    /\ mpc = "config"
    /\ kpc = "raised"
    /\ mpc' = "raised"
    /\ main_exc' = config_exc
    /\ UNCHANGED <<output_json, generate_summary, depth, verbose, configVars,
                   summarizerVars, normVars, remoteVars, afsVars>>

\* setup_logging(cfg); logger.info(...)
SetupLogging ==
    /\ mpc = "config"
    /\ kpc = "ready"
    /\ mpc' = "sourcegraph"
    /\ UNCHANGED <<output_json, generate_summary, depth, verbose, main_exc,
                   configVars, summarizerVars, normVars, remoteVars, afsVars>>

\* sourcegraph_searcher = SourcegraphSearcher(endpoint=..., token=...,
\*     timeout=cfg.get_request_timeout(), max_retries=cfg.get_max_retries())
ConstructSourcegraphSearcher ==
    /\ mpc = "sourcegraph"
    /\ max_retries' = ConfigGet(<<"performance", "max_retries">>, Number(3)).v
    /\ mpc' = "afs"
    /\ UNCHANGED <<json_error_is_request_exception, attempt, rpc, exc, log,
                   response, references, output_json, generate_summary,
                   depth, verbose, main_exc, configVars, summarizerVars,
                   normVars, afsVars>>

\* afs_searcher = AFSSearcher(root_path=..., search_patterns=...,
\*     verbose=verbose): the exception of the call leaves main
ConstructAFSSearcher ==
    /\ mpc = "afs"
    /\ LET bound == BindKeywords(MainAfsKeywords, AfsInitParameters)
       IN  IF bound = "none"
           THEN mpc' = "search" /\ UNCHANGED main_exc
           ELSE mpc' = "raised" /\ main_exc' = bound
    /\ UNCHANGED <<output_json, generate_summary, depth, verbose, configVars,
                   summarizerVars, normVars, remoteVars, afsVars>>

MainInit ==
    /\ query \in AfsQueries
    /\ base_name = <<>>
    /\ npc = "idle"
    /\ output_json \in BOOLEAN
    /\ generate_summary \in BOOLEAN
    /\ depth \in {Null} \cup {Number(d) : d \in 0..MaxDepthBound}
    /\ verbose \in BOOLEAN
    /\ mpc = "config"
    /\ main_exc = "none"
    /\ llm_api_key \in {"", "key"}
    /\ config_file \in MainConfigFiles
    /\ config = Null
    /\ kpc = "load"
    /\ config_exc = "none"
    /\ SummarizerIdle
    /\ RemoteIdle
    /\ AfsIdle

MainNext ==
    \/ LoadFile
    \/ SetDefaults
    \/ ConfigRaises
    \/ SetupLogging
    \/ ConstructSourcegraphSearcher
    \/ ConstructAFSSearcher

SpecMain == MainInit /\ [][MainNext]_vars

----------------------------------------------------------------------------
(* main: the max_depth argument of the filesystem search *)

\* the truth value Python gives to an Optional[int]
DepthIsTruthy(d) == d.t = "int" /\ d.v # 0

\* depth if depth else 1
MaxDepthArgument(d) == IF DepthIsTruthy(d) THEN d.v ELSE 1

\* what --depth can be: not given, or an integer (click's type=int takes
\* negative ones too)
DepthOptions == {Null} \cup {Number(d) : d \in (-1)..MaxDepthBound}

\* afs_refs = afs_searcher.search(query, max_depth=depth if depth else 1):
\* the argument is evaluated and the search is entered with it
CallSearch ==
    /\ mpc = "search"
    /\ max_depth' = MaxDepthArgument(depth)
    /\ mpc' = "searching"
    /\ UNCHANGED <<root_state, present, timeout, wpc, walk_stack, listed,
                   examined, matching_files, stat_idx, stat_log, refs,
                   result_queue, cpc, afs_result, output_json,
                   generate_summary, depth, verbose, main_exc, configVars,
                   summarizerVars, normVars, remoteVars>>

\* main with both searchers at hand, for each command line
DepthInit ==
    /\ query \in AfsQueries
    /\ base_name = <<>>
    /\ npc = "idle"
    /\ output_json \in BOOLEAN
    /\ generate_summary \in BOOLEAN
    /\ depth \in DepthOptions
    /\ verbose \in BOOLEAN
    /\ mpc = "search"
    /\ main_exc = "none"
    /\ ConfigIdle
    /\ SummarizerIdle
    /\ RemoteIdle
    /\ AfsIdle

DepthNext == CallSearch

SpecDepth == DepthInit /\ [][DepthNext]_vars

----------------------------------------------------------------------------
(* ImpactSummarizer *)

RiskMarker == <<"R", "I", "S", "K", "_", "L", "E", "V", "E", "L", ":">>
ImpactMarker == <<"I", "M", "P", "A", "C", "T", ":">>
StepsMarker == <<"S", "T", "E", "P", "S", ":">>

\* str.upper() on one character of the modelled alphabet
UpperChar(c) ==
    CASE c = "h" -> "H"
      [] c = "i" -> "I"
      [] OTHER -> c

\* s.upper()
Upper(s) == [i \in 1..Len(s) |-> UpperChar(s[i])]

\* s.replace(old, ""): every occurrence of old is removed, left to right
RECURSIVE Remove(_, _)
Remove(s, old) ==
    IF s = <<>> THEN <<>>
    ELSE IF StartsWith(s, old) THEN Remove(Slice(s, Len(old)), old)
    ELSE <<Head(s)>> \o Remove(Tail(s), old)

IsSpace(c) == c \in {" ", "\n", "\t"}

\* s.lstrip(), s.rstrip() and s.strip()
RECURSIVE LStrip(_)
LStrip(s) ==
    IF s # <<>> /\ IsSpace(Head(s)) THEN LStrip(Tail(s)) ELSE s

RECURSIVE RStrip(_)
RStrip(s) ==
    IF s # <<>> /\ IsSpace(s[Len(s)])
    THEN RStrip(SubSeq(s, 1, Len(s) - 1))
    ELSE s

Strip(s) == LStrip(RStrip(s))

\* [s.strip() for s in steps_text.split(";") if s.strip()]
StepsOf(steps_text) ==
    LET pieces == Split(steps_text, ";")
        stripped == [i \in 1..Len(pieces) |-> Strip(pieces[i])]
        NonEmpty(x) == x # <<>>
    IN  SelectSeq(stripped, NonEmpty)

Unknown == <<"U", "N", "K", "N", "O", "W", "N">>

Summary(risk, impact, steps) ==
    [risk_level |-> risk, impact_summary |-> impact,
     suggested_next_steps |-> steps]

\* one pass of the loop over the lines of the response
ParseLine(acc, line) ==
    IF StartsWith(line, RiskMarker)
    THEN [acc EXCEPT !.risk_level = Upper(Strip(Remove(line, RiskMarker)))]
    ELSE IF StartsWith(line, ImpactMarker)
    THEN [acc EXCEPT !.impact_summary = Strip(Remove(line, ImpactMarker))]
    ELSE IF StartsWith(line, StepsMarker)
    THEN [acc EXCEPT !.suggested_next_steps =
                        StepsOf(Strip(Remove(line, StepsMarker)))]
    ELSE acc

RECURSIVE ParseLines(_, _)
ParseLines(acc, lines) ==
    IF lines = <<>> THEN acc
    ELSE ParseLines(ParseLine(acc, Head(lines)), Tail(lines))

\* the variant that takes the three fields only when all three lines are
\* there
ParseTextAllOrNothing(text) ==
    LET lines == Split(text, "\n")
        Has(marker) == \E i \in DOMAIN lines : StartsWith(lines[i], marker)
    IN  IF Has(RiskMarker) /\ Has(ImpactMarker) /\ Has(StepsMarker)
        THEN ParseLines(Summary(Unknown, text, <<>>), lines)
        ELSE Summary(Unknown, text, <<>>)

\* _parse_summary on a str: the defaults, then the lines in order
ParseText(text) ==
    ParseLines(Summary(Unknown, text, <<>>), Split(text, "\n"))

\* _parse_summary(summary_text): None has no split
ParseSummary(content) ==
    IF content.t # "str" THEN Raise("AttributeError")
    ELSE Val(ParseText(content.v))

\* the lines an enumerated response is made of
ResponseLines ==
    {RiskMarker \o <<" ", "h", "i">>,
     RiskMarker,
     ImpactMarker \o <<" ", "h">>,
     StepsMarker \o <<" ", "h", ";", " ", "i", ";">>,
     <<"h", "i">>,
     <<" ">> \o RiskMarker \o <<" ", "h">>,
     <<>>}

\* "\n".join(lines)
RECURSIVE Join(_)
Join(lines) ==
    IF lines = <<>> THEN <<>>
    ELSE IF Len(lines) = 1 THEN Head(lines)
    ELSE Head(lines) \o <<"\n">> \o Join(Tail(lines))

ResponseTexts == {Join(lines) : lines \in SeqsUpTo(ResponseLines, MaxLines)}

\* what chat.completions.create and response.choices[0].message.content
\* give: a text, no content, or an exception
CallOutcomes ==
    {Val(Str(text)) : text \in ResponseTexts}
        \cup {Val(Null), Raise("APIError"), Raise("IndexError")}

\* the Summary of "if not self.client"
NotAvailableSummary ==
    Summary(Unknown, <<"LLM summarization not available">>, <<>>)

\* the Summary of "except Exception as e"
ErrorSummary(e) == Summary(Unknown, <<"Error generating summary: ", e>>, <<>>)

\* ImpactSummarizer.__init__: self.client = None, and OpenAI(...) only for
\* the provider "openai" with the package installed; OpenAI(...) raises
\* when it has no api key
Construct ==
    /\ spc = "init"
    /\ IF provider = "openai" /\ openai_available
       THEN \E outcome \in {"OpenAI", "OpenAIError"} :
                IF outcome = "OpenAI"
                THEN /\ client' = "OpenAI"
                     /\ spc' = "summarize"
                     /\ UNCHANGED summarizer_exc
                ELSE /\ spc' = "raised"
                     /\ summarizer_exc' = outcome
                     /\ UNCHANGED client
       ELSE /\ client' = "None"
            /\ spc' = "summarize"
            /\ UNCHANGED summarizer_exc
    /\ UNCHANGED <<provider, openai_available, code_refs, afs_refs,
                   summary_text, summary, configVars, mainVars, normVars,
                   remoteVars, afsVars>>

\* summarize: if not self.client: return the "not available" Summary;
\* else the prompt is built
Summarize ==
    /\ spc = "summarize"
    /\ IF client = "None"
       THEN summary' = NotAvailableSummary /\ spc' = "returned"
       ELSE spc' = "call" /\ UNCHANGED summary
    /\ UNCHANGED <<provider, openai_available, client, code_refs, afs_refs,
                   summary_text, summarizer_exc, configVars, mainVars,
                   normVars, remoteVars, afsVars>>

\* response = self.client.chat.completions.create(...);
\* summary_text = response.choices[0].message.content
CallLLM ==
    /\ spc = "call"
    /\ \E outcome \in CallOutcomes :
        IF outcome.exc = "none"
        THEN /\ summary_text' = outcome.val
             /\ spc' = "parse"
             /\ UNCHANGED summarizer_exc
        ELSE /\ summarizer_exc' = outcome.exc
             /\ spc' = "except"
             /\ UNCHANGED summary_text
    /\ UNCHANGED <<provider, openai_available, client, code_refs, afs_refs,
                   summary, configVars, mainVars, normVars, remoteVars,
                   afsVars>>

\* return self._parse_summary(summary_text)
ParseResponse ==
    /\ spc = "parse"
    /\ LET result == ParseSummary(summary_text)
       IN  IF result.exc = "none"
           THEN /\ summary' = result.val
                /\ spc' = "returned"
                /\ UNCHANGED summarizer_exc
           ELSE /\ summarizer_exc' = result.exc
                /\ spc' = "except"
                /\ UNCHANGED summary
    /\ UNCHANGED <<provider, openai_available, client, code_refs, afs_refs,
                   summary_text, configVars, mainVars, normVars, remoteVars,
                   afsVars>>

\* except Exception as e: return the error Summary
SummarizeExcept ==
    /\ spc = "except"
    /\ summary' = ErrorSummary(summarizer_exc)
    /\ summarizer_exc' = "none"
    /\ spc' = "returned"
    /\ UNCHANGED <<provider, openai_available, client, code_refs, afs_refs,
                   summary_text, configVars, mainVars, normVars, remoteVars,
                   afsVars>>

\* k references, as the searchers return them
SomeReferences(k, type) ==
    [i \in 1..k |-> [path |-> <<"a", "b", ".", "p", "y">>, type |-> type]]

SummarizerInit ==
    /\ provider \in {"openai", "anthropic"}
    /\ openai_available \in BOOLEAN
    /\ client = "None"
    /\ code_refs \in {SomeReferences(k, "code") : k \in 0..MaxResults}
    /\ afs_refs \in {SomeReferences(k, "afs") : k \in 0..MaxResults}
    /\ summary_text = Null
    /\ summary = Null
    /\ summarizer_exc = "none"
    /\ spc = "init"
    /\ ConfigIdle
    /\ MainIdle
    /\ NormIdle
    /\ RemoteIdle
    /\ AfsIdle

SummarizerNext ==
    \/ Construct
    \/ Summarize
    \/ CallLLM
    \/ ParseResponse
    \/ SummarizeExcept

SpecSummarizer == SummarizerInit /\ [][SummarizerNext]_vars

----------------------------------------------------------------------------
(* C1 *)

HasDot(s) == \E i \in 1..Len(s) : s[i] = "."

\* s is what follows the last "." of r
AfterLastDot(s, r) ==
    \E i \in 1..Len(r) :
        /\ r[i] = "."
        /\ \A j \in (i + 1)..Len(r) : r[j] # "."
        /\ s = SubSeq(r, i + 1, Len(r))

\* C1: once _extract_base_name has returned, the base name of a job: query
\* is the rest of the query; else that of a table: query is what follows the
\* last "." of the rest (the rest itself when it has no "."); else it is the
\* query unchanged.  The call is enabled for every query.
C1_ExtractBaseNameRules ==
    /\ npc = "call" => ENABLED Normalize
    /\ npc = "done" =>
        IF StartsWith(query, JobPrefix)
        THEN base_name = Slice(query, 4)
        ELSE IF StartsWith(query, TablePrefix)
        THEN LET rest == Slice(query, 6)
             IN  IF HasDot(rest) THEN AfterLastDot(base_name, rest)
                 ELSE base_name = rest
        ELSE base_name = query

\* a table: query with two dots has been normalised to a non-empty name
C1_Witness ==
    /\ npc = "done"
    /\ StartsWith(query, TablePrefix)
    /\ Slice(query, 6) = <<"a", ".", "B">>
    /\ base_name = <<"B">>

----------------------------------------------------------------------------
(* C3, C4, C5: the retry loop, read off the log *)

Posts == {i \in DOMAIN log : log[i].ev = "post"}
Successes == {i \in Posts : log[i].out = "OK"}
Failures == Posts \ Successes

IsSleep(e) == e.ev = "sleep"

\* the backoff delays taken so far, in order
Delays ==
    LET sleeps == SelectSeq(log, IsSleep)
    IN  [i \in 1..Len(sleeps) |-> sleeps[i].secs]

\* the failures the except clause of _make_request retries
Retryable(i) == IsInstance(ExceptionOf(log[i].out), "RequestException")

\* C3: search_references never raises to its caller; it never issues more
\* than max_retries requests; when it returns without any request having
\* succeeded it returns the empty list; and when max_retries attempts have
\* all failed it has issued exactly max_retries requests, as it has whenever
\* every failure was one the loop retries.
C3_SearchReferencesNeverRaises ==
    /\ rpc # "raised"
    /\ Cardinality(Posts) <= max_retries
    /\ (rpc = "returned" /\ Successes = {}) => references = <<>>
    /\ (rpc = "returned" /\ Cardinality(Failures) = max_retries) =>
            /\ references = <<>>
            /\ Cardinality(Posts) = max_retries
    /\ (rpc = "returned" /\ Successes = {} /\ \A i \in Failures : Retryable(i))
            => Cardinality(Posts) = max_retries

\* three attempts failed in three different ways, the last with a body that
\* is not JSON, and the empty list came back
C3_Witness ==
    /\ rpc = "returned"
    /\ max_retries = 3
    /\ Cardinality(Failures) = 3
    /\ log[1].out = "Timeout"
    /\ log[3].out = "HTTP5xx"
    /\ log[5].out = "MalformedBody"
    /\ ~json_error_is_request_exception
    /\ references = <<>>

\* C4: when a request succeeds after k failures, k < max_retries, what
\* _make_request returns is that request's body, exactly k delays were
\* taken, the i-th (from 0) of 2^i seconds, and the success is the last
\* event: no request and no delay follows it.  With max_retries = 3 and two
\* failures the delays are 1 and 2.
C4_BackoffThenSuccess ==
    \A n \in Successes :
        LET k == Cardinality({i \in Failures : i < n})
        IN  /\ k < max_retries
            /\ n = Len(log)
            /\ rpc \in {"parse", "returned"}
            /\ response = log[n].body
            /\ Len(Delays) = k
            /\ \A i \in 0..(k - 1) : Delays[i + 1] = 2 ^ i
            /\ (max_retries = 3 /\ k = 2) => Delays = <<1, 2>>

\* two failures, then a success, with max_retries = 3
C4_Witness ==
    /\ max_retries = 3
    /\ Len(log) = 5
    /\ log[1].out = "Timeout"
    /\ log[3].out = "ConnectionError"
    /\ log[5].out = "OK"
    /\ Delays = <<1, 2>>
    /\ rpc = "returned"
    /\ response = FullResponse(OneMatch)
    /\ Len(references) = 1

\* C5: a 4xx status or a malformed body ends the retry loop: the failed
\* request is the last event, no delay and no request follows it.
C5_NonRetryableStopsRetrying ==
    \A n \in Posts :
        log[n].out \in {"HTTP4xx", "MalformedBody"} => n = Len(log)

----------------------------------------------------------------------------
(* C6, C7: _parse_search_results *)

\* every key of data/search/results/results is there, each in a dict
FullPath(r) ==
    /\ HasKey(r, "data")
    /\ HasKey(r.v["data"], "search")
    /\ HasKey(r.v["data"].v["search"], "results")
    /\ HasKey(r.v["data"].v["search"].v["results"], "results")

ResultList(r) == r.v["data"].v["search"].v["results"].v["results"]

\* C6: for a response in which some part of the data/search/results/results
\* path is missing, the parser returns the empty list and raises nothing.
C6_MissingPathParsesEmpty ==
    (rpc # "parse" /\ ~FullPath(response)) =>
        /\ rpc = "returned"
        /\ exc = "none"
        /\ references = <<>>

\* the response {"data": {}} has been parsed
C6_Witness ==
    /\ rpc = "returned"
    /\ response = Obj([data |-> EmptyObj])
    /\ references = <<>>

IsFileMatch(e) ==
    HasKey(e, "__typename") /\ e.v["__typename"] = Str("FileMatch")

\* a FileMatch entry's file and repository, when it has them, are dicts
WellFormedEntry(e) ==
    /\ e.t = "obj"
    /\ IsFileMatch(e) =>
            \A k \in {"file", "repository"} : HasKey(e, k) => e.v[k].t = "obj"

\* the entry's k.sub, the empty string when k or sub is absent
FieldOrEmpty(e, k, sub) ==
    IF HasKey(e, k) /\ HasKey(e.v[k], sub) THEN e.v[k].v[sub] ELSE Str("")

----------------------------------------------------------------------------
(* C2, C8, C9, C10: the filesystem search *)

\* C2: when normalisation yields the empty base name, the traversal matches
\* no file and the search returns the empty list.
C2_EmptyBaseNameMatchesNothing ==
    ExtractBaseName(query) = <<>> =>
        /\ matching_files = <<>>
        /\ cpc = "returned" => afs_result = <<>>

\* C8: when the root fails the liveness probe, no traversal is started (no
\* directory is listed, no file examined), the worker puts only the empty
\* list, the caller's read of the queue finds it, and what search returns is
\* the empty list.
C8_UnreachableRootReturnsEmpty ==
    root_state # "ok" =>
        /\ wpc \notin {"extract", "walk", "stat"}
        /\ walk_stack = <<>>
        /\ listed = <<>>
        /\ examined = {}
        /\ \A i \in DOMAIN result_queue : result_queue[i] = <<>>
        /\ cpc = "get" => result_queue # <<>>
        /\ cpc = "returned" => afs_result = <<>>

\* a root whose listing raises: the worker has put [] and finished, and the
\* caller, waiting without a timeout, has returned it
C8_Witness ==
    /\ root_state = "unlistable"
    /\ timeout = "None"
    /\ wpc = "dead"
    /\ cpc = "returned"
    /\ result_queue = <<>>
    /\ afs_result = <<>>

\* C9 as stated: with max_depth = 1 only the root's own files are examined
\* or returned.
C9_DepthOneScansRootOnly ==
    max_depth = 1 =>
        /\ \A f \in examined : f.dir = Root
        /\ \A i \in DOMAIN afs_result : Len(afs_result[i].path) = 1

\* no name on the way to d begins with "."
NoHiddenPart(d) == \A i \in DOMAIN d : ~IsHiddenName(d[i])

\* os.walk has been run to its end
WalkFinished == wpc = "stat" \/ (wpc \in {"exit", "dead"} /\ root_state = "ok")

\* C9, amended: max_depth counts the directory levels below the root that
\* are scanned.  No directory more than max_depth levels below the root is
\* listed and no file in one is examined or returned; once the walk is over
\* the root and every non-hidden directory at most max_depth levels below it
\* has been listed and its files examined.  With max_depth = 1 that is the
\* root and its immediate subdirectories, and nothing two levels down.
C9_DepthCountsLevelsBelowRoot ==
    /\ \A i \in DOMAIN listed : Len(listed[i]) <= max_depth
    /\ \A f \in examined : Len(f.dir) <= max_depth
    /\ \A i \in DOMAIN afs_result : Len(afs_result[i].path) <= max_depth + 1
    /\ WalkFinished =>
        \A d \in AllDirs :
            (Len(d) <= max_depth /\ NoHiddenPart(d)) =>
                /\ \E i \in DOMAIN listed : listed[i] = d
                /\ \A f \in present : f.dir = d => f \in examined
    /\ max_depth = 1 =>
        /\ \A f \in examined : Len(f.dir) < 2
        /\ \A i \in DOMAIN afs_result : Len(afs_result[i].path) < 3

\* max_depth = 1, a file one level down has been examined and returned, a
\* file two levels down has not
C9_Witness ==
    /\ max_depth = 1
    /\ present = {File(<<DirA>>, NameAbPy), File(<<DirA, DirB>>, NameAbPy)}
    /\ File(<<DirA>>, NameAbPy) \in examined
    /\ File(<<DirA, DirB>>, NameAbPy) \notin examined
    /\ cpc = "returned"
    /\ afs_result = <<AfsReference(File(<<DirA>>, NameAbPy))>>

\* C10: with max_depth = 0 os.walk never descends: the root is the only
\* directory listed or waiting to be, only files of the root are examined,
\* and every returned path is a file directly inside the root.
C10_DepthZeroStaysInRoot ==
    max_depth = 0 =>
        /\ \A i \in DOMAIN listed : listed[i] = Root
        /\ \A i \in DOMAIN walk_stack : walk_stack[i] = Root
        /\ \A f \in examined : f.dir = Root
        /\ \A i \in DOMAIN afs_result :
            \E n \in DOMAIN FileOrder :
                /\ afs_result[i].path = <<FileOrder[n]>>
                /\ File(Root, FileOrder[n]) \in present

\* max_depth = 0 and the same name in the root and in a subdirectory: only
\* the root's file is returned
C10_Witness ==
    /\ max_depth = 0
    /\ present = {File(Root, NameAbPy), File(<<DirA>>, NameAbPy)}
    /\ wpc = "dead"
    /\ cpc = "returned"
    /\ listed = <<Root>>
    /\ afs_result = <<AfsReference(File(Root, NameAbPy))>>

----------------------------------------------------------------------------
(* C11, C12: what the traversal visits and what it keeps *)

\* some name on the way to d begins with "."
HasHiddenComponent(d) == \E i \in DOMAIN d : Len(d[i]) > 0 /\ d[i][1] = "."

\* the directory part of a returned path
DirOfPath(path) == SubSeq(path, 1, Len(path) - 1)

\* C11: whatever max_depth and the query, no directory below the root whose
\* name begins with "." is listed or waits to be listed, nor any directory
\* under one; no file in such a directory is examined, and no returned path
\* has such a directory component.
C11_HiddenDirectoriesPruned ==
    /\ \A i \in DOMAIN listed : ~HasHiddenComponent(listed[i])
    /\ \A i \in DOMAIN walk_stack : ~HasHiddenComponent(walk_stack[i])
    /\ \A f \in examined : ~HasHiddenComponent(f.dir)
    /\ \A i \in DOMAIN matching_files :
            ~HasHiddenComponent(matching_files[i].dir)
    /\ \A i \in DOMAIN afs_result :
            ~HasHiddenComponent(DirOfPath(afs_result[i].path))

\* max_depth = 2, matching files in a hidden directory of the root and in a
\* hidden directory one level down: the walk went below the root, and the
\* search returned nothing
C11_Witness ==
    /\ max_depth = 2
    /\ query = <<"a", "b">>
    /\ present = {File(<<DirHidden>>, NameAbPy),
                  File(<<DirA, DirHidden>>, NameAbPy)}
    /\ listed = <<Root, <<DirA>>, <<DirA, DirB>>>>
    /\ wpc = "dead"
    /\ cpc = "returned"
    /\ afs_result = <<>>

\* base, case-insensitively, occurs in name at some offset
OccursIgnoringCase(base, name) ==
    \E k \in 0..(Len(name) - Len(base)) :
        \A i \in 1..Len(base) : LowerChar(base[i]) = LowerChar(name[k + i])

\* name ends with the extension of one of the configured patterns
HasConfiguredExtension(name) ==
    \E ext \in SearchPatterns :
        /\ Len(name) >= Len(ext)
        /\ \A i \in 1..Len(ext) : name[Len(name) - Len(ext) + i] = ext[i]

\* C12: a file the traversal has visited is in matching_files if and only
\* if the base name occurs, case-insensitively, in its name and its name
\* matches a configured pattern; and every path the search returns is that
\* of a file meeting both.
C12_MatchNeedsBothConditions ==
    /\ \A f \in examined :
        (\E i \in DOMAIN matching_files : matching_files[i] = f)
            <=> (/\ OccursIgnoringCase(base_name, f.name)
                 /\ HasConfiguredExtension(f.name))
    /\ \A i \in DOMAIN afs_result :
        LET path == afs_result[i].path
        IN  /\ OccursIgnoringCase(base_name, path[Len(path)])
            /\ HasConfiguredExtension(path[Len(path)])

\* ab.py and ab.txt in the root, query job:AB: both were visited, only
\* ab.py is returned
C12_Witness ==
    /\ query = JobPrefix \o <<"A", "B">>
    /\ present = {File(Root, NameAbPy), File(Root, NameAbTxt)}
    /\ examined = present
    /\ cpc = "returned"
    /\ afs_result = <<AfsReference(File(Root, NameAbPy))>>

----------------------------------------------------------------------------
(* C13, C19, C20: the worker, the queue and the join *)

\* C13: the search as main calls it never keeps its caller waiting past a
\* deadline: a caller that waits in join on a worker still running can
\* leave by the timeout; a caller that left a running worker behind has the
\* empty sequence; and what a worker puts on the queue after the caller
\* returned stays on the queue.
C13_CallerLeavesAtDeadline ==
    /\ (cpc = "join" /\ wpc # "dead") => ENABLED JoinTimesOut
    /\ (cpc = "returned" /\ wpc # "dead") => afs_result = <<>>
    /\ (cpc = "returned" /\ result_queue # <<>>) => afs_result = <<>>

\* the references of the files the worker has got past whose stat succeeded
StatSucceeded ==
    LET Ok(i) == stat_log[i] = "ok"
        idx == SelectSeq([i \in 1..Len(stat_log) |-> i], Ok)
    IN  [k \in 1..Len(idx) |-> AfsReference(matching_files[idx[k]])]

\* C19: an OSError from the stat of a matched file does not end the loop:
\* while no other exception has been raised the worker goes on to the next
\* file and refs holds, in the order of traversal, exactly the files whose
\* stat succeeded; that list is what a caller who reads the queue gets.
C19_StatFailureSkipsTheFile ==
    (\A i \in DOMAIN stat_log : stat_log[i] \in {"ok", "OSError"}) =>
        /\ wpc = "stat" =>
            /\ stat_idx = Len(stat_log) + 1
            /\ refs = StatSucceeded
        /\ (wpc \in {"exit", "dead"} /\ root_state = "ok") =>
            /\ Len(stat_log) = Len(matching_files)
            /\ refs = StatSucceeded
        /\ (cpc = "returned" /\ wpc = "dead" /\ result_queue = <<>>) =>
            afs_result = StatSucceeded

\* two matched files, the stat of the first fails and that of the second
\* succeeds: the search returns the second
C19_Witness ==
    /\ Len(matching_files) = 2
    /\ stat_log = <<"OSError", "ok">>
    /\ cpc = "returned"
    /\ afs_result = <<AfsReference(matching_files[2])>>

\* C20: the worker has put nothing while it runs and has put exactly one
\* item once it is about to terminate, whichever way it ends; so a caller
\* whom is_alive() sent to result_queue.get() finds that item and does not
\* block.
C20_OnePutBeforeWorkerEnds ==
    /\ wpc \notin {"exit", "dead"} => result_queue = <<>> /\ cpc # "get"
    /\ wpc \in {"exit", "dead"} =>
        \/ Len(result_queue) = 1
        \/ result_queue = <<>> /\ cpc = "returned"
    /\ cpc = "get" => Len(result_queue) = 1 /\ wpc = "dead"
    /\ cpc = "get" => ENABLED QueueGet

\* the worker ended through its except Exception, and the caller is at get
C20_Witness ==
    /\ cpc = "get"
    /\ wpc = "dead"
    /\ stat_log = <<"ok", "ValueError">>
    /\ result_queue = <<<<>>>>

----------------------------------------------------------------------------
(* C18: the configuration merge *)

\* the file gives a value to key of section
FileSets(section, key) ==
    /\ config_file.t = "obj"
    /\ section \in DOMAIN config_file.v
    /\ config_file.v[section].t = "obj"
    /\ key \in DOMAIN config_file.v[section].v

\* every recognized key reads as the file's value where the file sets it
\* and as the default where it does not
MergedPerKey ==
    \A section \in SectionNames : \A key \in DOMAIN Defaults[section].v :
        ConfigGet(<<section, key>>, Null) =
            IF FileSets(section, key)
            THEN config_file.v[section].v[key]
            ELSE Defaults[section].v[key]

\* C18: for every user file that is a YAML document (or for none), loading
\* does not raise, and once it is done each recognized key the file sets
\* has the file's value and each key the file omits, with its whole
\* section or within a section that is present, has the default.
C18_ConfigMergesPerKey ==
    config_file # Malformed =>
        /\ kpc # "raised"
        /\ kpc = "ready" => MergedPerKey

----------------------------------------------------------------------------
(* C14, C16: main and its two backends *)

\* C14: a backend that fails with an exception does not end the command:
\* once the configuration is loaded main does not end with an exception.
C14_BackendFailureIsIsolated ==
    kpc = "ready" => mpc # "raised"

\* C16: a run of main whose configuration loaded goes on to its output,
\* where the two lists are the two backends' results: it does not stop,
\* without output, at the construction of a searcher.
C16_OutputKeepsBothSources ==
    (mpc = "raised" /\ main_exc # "none") => config_exc = main_exc

----------------------------------------------------------------------------
(* C15, C17: the summary *)

\* the templated count of the two reference lists
CountText(n, m) ==
    <<"Found ", ToString(n), " code references and ", ToString(m),
      " AFS references">>

\* C15: the summary that is returned when the summarizer has no client is
\* the fallback: risk level Unknown, an impact_summary that states the
\* number of code references and the number of AFS references, and no
\* next steps.
C15_NoClientGivesCountFallback ==
    (spc = "returned" /\ client = "None") =>
        summary = Summary(Unknown,
                          CountText(Len(code_refs), Len(afs_refs)), <<>>)

\* the lines of the response, and whether one of them starts with marker
LinesOfResponse == Split(summary_text.v, "\n")

HasLine(marker) ==
    \E i \in DOMAIN LinesOfResponse : StartsWith(LinesOfResponse[i], marker)

\* the last line that starts with marker
LastLine(marker) ==
    LET i == CHOOSE j \in DOMAIN LinesOfResponse :
                /\ StartsWith(LinesOfResponse[j], marker)
                /\ \A k \in DOMAIN LinesOfResponse :
                    StartsWith(LinesOfResponse[k], marker) => k <= j
    IN  LinesOfResponse[i]

\* a response the summarizer has parsed and returned the Summary of
ParsedText == spc = "returned" /\ summary_text.t = "str"

\* C17 as stated: a text that lacks any of the three lines gives the risk
\* level Unknown and the raw text as impact_summary.
C17_PartialResponseFallsBack ==
    (/\ ParsedText
     /\ ~(HasLine(RiskMarker) /\ HasLine(ImpactMarker) /\ HasLine(StepsMarker)))
        => /\ summary.risk_level = Unknown
           /\ summary.impact_summary = summary_text.v

\* C17, amended: summarize raises nothing: a call that fails and a response
\* without text give the error Summary, whose risk level is Unknown. Of a
\* text each field is set by its own line: without a RISK_LEVEL: line the
\* risk level is Unknown, without an IMPACT: line the impact_summary is the
\* raw text, without a STEPS: line there are no steps, and a line that is
\* there sets its field whether or not the other lines are.
C17_EachLineSetsItsOwnField ==
    /\ spc = "raised" => client = "None" /\ summarizer_exc = "OpenAIError"
    /\ (spc = "returned" /\ client = "OpenAI" /\ summary_text = Null) =>
        /\ summary.risk_level = Unknown
        /\ summary.impact_summary[1] = "Error generating summary: "
        /\ summary.suggested_next_steps = <<>>
    /\ ParsedText =>
        /\ summary.risk_level =
            IF ~HasLine(RiskMarker) THEN Unknown
            ELSE IF LastLine(RiskMarker) = RiskMarker THEN <<>>
            ELSE <<"H", "I">>
        /\ summary.impact_summary =
            IF ~HasLine(ImpactMarker) THEN summary_text.v ELSE <<"h">>
        /\ summary.suggested_next_steps =
            IF ~HasLine(StepsMarker) THEN <<>> ELSE <<<<"h">>, <<"i">>>>

\* the response is the one line RISK_LEVEL: hi
C17_Witness ==
    /\ spc = "returned"
    /\ summary_text = Str(RiskMarker \o <<" ", "h", "i">>)
    /\ summary = Summary(<<"H", "I">>, summary_text.v, <<>>)

----------------------------------------------------------------------------
(* C21: the depth override *)

\* C21: the filesystem search is entered with max_depth = d for every
\* integer d given with --depth, d = 0 included, and with max_depth = 1
\* only when --depth is not given.
C21_DepthOverridePassedThrough ==
    mpc = "searching" =>
        /\ depth # Null => max_depth = depth.v
        /\ max_depth = 1 => (depth = Null \/ depth = Number(1))

====
